---------------------------- MODULE Spec2Model ----------------------------
(***************************************************************************)
(* Model of arduino_sketch.ino: the metronome loop that writes heartbeat   *)
(* and probe events and the ACTIVATE/DEACTIVATE edge events to Serial.     *)
(*                                                                         *)
(* An unsigned long (32 bits) is held as a pair <<hi, lo>> of 16-bit       *)
(* halves, so that the arithmetic keeps its width.                         *)
(***************************************************************************)
EXTENDS Integers, Sequences, FiniteSets

(* ------------------------------ bounds --------------------------------- *)
MaxPolls == 5
MaxTicks == 260
MaxScenarioPolls == 8
MaxLiveClock == 520

(* ----------------------------- constants ------------------------------- *)
LOW == 0
HIGH == 1
Levels == {LOW, HIGH}

MSG_MEATBAG_DEACTIVATE == 2
MSG_MEATBAG_ACTIVATE == 3
MSG_EVENT_HEARTBEAT == 4
MSG_EVENT_PROBE == 5

MEATBAG_BAUD == 4
CYCLE_TIMESPAN == 1000 \div MEATBAG_BAUD
EVENT_TIMESPAN == CYCLE_TIMESPAN \div 2

(* --------------------- unsigned long and int -------------------------- *)
Half == 65536

\* the unsigned long with value n (0 <= n < 2^31)
U32(n) == <<n \div Half, n % Half>>

\* the unsigned long 2^31
TwoTo31 == <<Half \div 2, 0>>

\* a + b on unsigned long: wraps modulo 2^32
Add32(a, b) ==
    LET lo == a[2] + b[2]
        carry == lo \div Half
    IN  <<(a[1] + b[1] + carry) % Half, lo % Half>>

\* a - b on unsigned long: wraps modulo 2^32
Sub32(a, b) ==
    LET lo == a[2] - b[2]
        borrow == IF lo < 0 THEN 1 ELSE 0
    IN  <<(a[1] - b[1] - borrow + Half) % Half, (lo + Half) % Half>>

\* a > n on unsigned long, n a small natural (n < 2^16)
Gt32(a, n) == a[1] > 0 \/ a[2] > n

\* a >= n on unsigned long, n a small natural (n < 2^16)
Geq32(a, n) == a[1] > 0 \/ a[2] >= n

\* the value of an unsigned long below 2^31 as a natural number
Nat32(a) == a[1] * Half + a[2]

\* the conversion of an unsigned long to an int of the given width: the low
\* bits, read as two's complement
ToInt(d, bits) ==
    IF bits = 16
    THEN IF d[2] >= Half \div 2 THEN d[2] - Half ELSE d[2]
    ELSE IF d[1] >= Half \div 2 THEN (d[1] - Half) * Half + d[2]
         ELSE d[1] * Half + d[2]

\* mutant: the elapsed time taken from boot, previousTimestamp not subtracted
TimeElapsed_SinceBoot(current, previous, bits) == ToInt(current, bits)

\* int timeElapsed = currentTimestamp - previousTimestamp;
TimeElapsed(current, previous, bits) == ToInt(Sub32(current, previous), bits)

(* ------------------------------ state ---------------------------------- *)
VARIABLES
    intBits,                \* width of int on the board the sketch is built for
    clock,                  \* millis(), as of the last poll
    isMeatbagTranscribing,
    previousTimestamp,
    previousEvent,
    timeElapsed,            \* loop()'s local, as computed by the last poll
    activate,               \* loop()'s local: the activation pin as last read
    value,                  \* loop()'s local: the signal pin as last sampled
                            \* (LOW before the first sample)
    out,                    \* everything printed to Serial so far
    emitted,                \* what the last poll printed to Serial
    events,                 \* the events emitted so far, in order
    heartbeatAt,            \* the clock readings of the last two heartbeats
    polls                   \* number of polls so far

vars == <<intBits, clock, isMeatbagTranscribing, previousTimestamp,
          previousEvent, timeElapsed, activate, value, out, emitted,
          events, heartbeatAt, polls>>

Init ==
    /\ intBits \in {16, 32}
    /\ clock = U32(0)
    /\ isMeatbagTranscribing = 0
    /\ previousTimestamp = U32(0)
    /\ previousEvent = MSG_EVENT_PROBE
    /\ timeElapsed = 0
    /\ activate = LOW
    /\ value = LOW
    /\ out = <<>>
    /\ emitted = <<>>
    /\ events = <<>>
    /\ heartbeatAt = <<>>
    /\ polls = 0

(* ------------------------------ loop() --------------------------------- *)
\* the four events of the sketch; a probe carries the sampled bit
HeartbeatEvent == <<"HEARTBEAT">>
ProbeEvent(v) == <<"PROBE", v>>
ActivateEvent == <<"ACTIVATE">>
DeactivateEvent == <<"DEACTIVATE">>

\* mutant: the threshold a whole cycle instead of half of it
ExceedsTimespan_Cycle(te) == te > CYCLE_TIMESPAN

\* mutant: the threshold test with >= for >
ExceedsTimespan_Inclusive(te) == te >= EVENT_TIMESPAN

\* timeElapsed > EVENT_TIMESPAN
ExceedsTimespan(te) == te > EVENT_TIMESPAN

\* mutant: the heartbeat branch without the test of previousEvent
HeartbeatDue_AnyPhase(te, prevEv) == ExceedsTimespan(te)

\* the guard of the heartbeat branch
HeartbeatDue(te, prevEv) ==
    ExceedsTimespan(te) /\ prevEv = MSG_EVENT_PROBE

\* mutant: the probe branch without the test of isMeatbagTranscribing
ProbeDue_IgnoresFlag(te, prevEv, transcribing) ==
    /\ ~HeartbeatDue(te, prevEv)
    /\ ExceedsTimespan(te)
    /\ prevEv = MSG_EVENT_HEARTBEAT

\* the guard of the probe branch (the else of the heartbeat branch)
ProbeDue(te, prevEv, transcribing) ==
    /\ ~HeartbeatDue(te, prevEv)
    /\ ExceedsTimespan(te)
    /\ prevEv = MSG_EVENT_HEARTBEAT
    /\ transcribing = 1
    /\ ExceedsTimespan(te)

\* mutant: the probe branch printing MSG_EVENT_PROBE before the value
ProbePrint_Tagged(v) == <<MSG_EVENT_PROBE, v>>

\* what the probe branch prints: Serial.print(value)
ProbePrint(v) == <<v>>

\* what the heartbeat branch prints
HeartbeatPrint == <<MSG_EVENT_HEARTBEAT>>

\* mutant: ACTIVATE on the pin's level, without the test of the flag
EdgeDetect_OnLevel(transcribing, pin) ==
    IF transcribing = 1 /\ pin = LOW
    THEN [flag |-> 0, print |-> <<MSG_MEATBAG_DEACTIVATE>>,
          event |-> <<DeactivateEvent>>]
    ELSE IF pin = HIGH
    THEN [flag |-> 1, print |-> <<MSG_MEATBAG_ACTIVATE>>,
          event |-> <<ActivateEvent>>]
    ELSE [flag |-> transcribing, print |-> <<>>, event |-> <<>>]

\* mutant: the edge detector printing the pin's level, not the message code
EdgeDetect_PrintsLevel(transcribing, pin) ==
    IF transcribing = 1 /\ pin = LOW
    THEN [flag |-> 0, print |-> <<pin>>, event |-> <<DeactivateEvent>>]
    ELSE IF transcribing = 0 /\ pin = HIGH
    THEN [flag |-> 1, print |-> <<pin>>, event |-> <<ActivateEvent>>]
    ELSE [flag |-> transcribing, print |-> <<>>, event |-> <<>>]

\* mutant: DEACTIVATE printed without the flag being cleared
EdgeDetect_KeepsFlag(transcribing, pin) ==
    IF transcribing = 1 /\ pin = LOW
    THEN [flag |-> transcribing, print |-> <<MSG_MEATBAG_DEACTIVATE>>,
          event |-> <<DeactivateEvent>>]
    ELSE IF transcribing = 0 /\ pin = HIGH
    THEN [flag |-> 1, print |-> <<MSG_MEATBAG_ACTIVATE>>,
          event |-> <<ActivateEvent>>]
    ELSE [flag |-> transcribing, print |-> <<>>, event |-> <<>>]

\* mutant: the flag cleared without DEACTIVATE being printed
EdgeDetect_SilentDeactivate(transcribing, pin) ==
    IF transcribing = 1 /\ pin = LOW
    THEN [flag |-> 0, print |-> <<>>, event |-> <<>>]
    ELSE IF transcribing = 0 /\ pin = HIGH
    THEN [flag |-> 1, print |-> <<MSG_MEATBAG_ACTIVATE>>,
          event |-> <<ActivateEvent>>]
    ELSE [flag |-> transcribing, print |-> <<>>, event |-> <<>>]

\* the activation edge detector: the new flag and what it prints
EdgeDetect(transcribing, pin) ==
    IF transcribing = 1 /\ pin = LOW
    THEN [flag |-> 0, print |-> <<MSG_MEATBAG_DEACTIVATE>>,
          event |-> <<DeactivateEvent>>]
    ELSE IF transcribing = 0 /\ pin = HIGH
    THEN [flag |-> 1, print |-> <<MSG_MEATBAG_ACTIVATE>>,
          event |-> <<ActivateEvent>>]
    ELSE [flag |-> transcribing, print |-> <<>>, event |-> <<>>]

\* mutant: the edge detector placed before the scheduler's branches
PollPrint_EdgeFirst(sched, edgePrint) == edgePrint \o sched

\* what one poll prints: the scheduler's branch first, the edge detector after
PollPrint(sched, edgePrint) == sched \o edgePrint

\* the heartbeat history: the readings of the last two heartbeats
NoteHeartbeat(h, t) == IF Len(h) < 2 THEN Append(h, t) ELSE <<h[2], t>>

\* one poll of loop(): millis() has advanced by delta, the activation pin
\* reads activatePin and the signal pin reads valuePin
loop(delta, activatePin, valuePin) ==
    LET currentTimestamp == Add32(clock, delta)
        te == TimeElapsed(currentTimestamp, previousTimestamp, intBits)
        hb == HeartbeatDue(te, previousEvent)
        pr == ProbeDue(te, previousEvent, isMeatbagTranscribing)
        sched == IF hb THEN HeartbeatPrint
                 ELSE IF pr THEN ProbePrint(valuePin)
                 ELSE <<>>
        schedEvent == IF hb THEN <<HeartbeatEvent>>
                      ELSE IF pr THEN <<ProbeEvent(valuePin)>>
                      ELSE <<>>
        edge == EdgeDetect(isMeatbagTranscribing, activatePin)
    IN  /\ clock' = currentTimestamp
        /\ timeElapsed' = te
        /\ previousTimestamp' = IF hb \/ pr THEN currentTimestamp
                                ELSE previousTimestamp
        /\ previousEvent' = IF hb THEN MSG_EVENT_HEARTBEAT
                            ELSE IF pr THEN MSG_EVENT_PROBE
                            ELSE previousEvent
        /\ value' = IF pr THEN valuePin ELSE value
        /\ activate' = activatePin
        /\ isMeatbagTranscribing' = edge.flag
        /\ emitted' = PollPrint(sched, edge.print)
        /\ out' = out \o PollPrint(sched, edge.print)
        /\ events' = events \o schedEvent \o edge.event
        /\ heartbeatAt' = IF hb THEN NoteHeartbeat(heartbeatAt, currentTimestamp)
                          ELSE heartbeatAt
        /\ polls' = polls + 1
        /\ UNCHANGED intBits

\* the advances of millis() between two polls that the model tries
Deltas == {U32(0), U32(1), U32(EVENT_TIMESPAN), U32(EVENT_TIMESPAN + 1),
           U32(40000), TwoTo31}

Next ==
    /\ polls < MaxPolls
    /\ \E d \in Deltas, a \in Levels, v \in Levels : loop(d, a, v)

Spec == Init /\ [][Next]_vars

\* polls at every clock tick from 0, the activation pin HIGH throughout
NextTick ==
    /\ polls < MaxTicks
    /\ \E v \in Levels :
           loop(IF polls = 0 THEN U32(0) ELSE U32(1), HIGH, v)

SpecTick == Init /\ [][NextTick]_vars

\* the polls at clock readings 0, 130, 260, 390 with the activation pin HIGH
\* and the signal pin 1, then further polls 130 ms apart with any pin levels
NextScenario ==
    /\ polls < MaxScenarioPolls
    /\ \E a \in Levels, v \in Levels :
           /\ polls < 4 => (a = HIGH /\ v = HIGH)
           /\ loop(IF polls = 0 THEN U32(0) ELSE U32(130), a, v)

SpecScenario == Init /\ [][NextScenario]_vars

\* the advances of millis() between two polls that the steady run tries, all
\* of at least one and at most EVENT_TIMESPAN: six of the first make an
\* elapsed time of EVENT_TIMESPAN + 1, the last makes exactly EVENT_TIMESPAN
LiveDeltas == {U32((EVENT_TIMESPAN + 1) \div 6), U32(EVENT_TIMESPAN \div 2),
               U32(EVENT_TIMESPAN)}

\* polls that go on with the activation pin HIGH, the clock advancing by at
\* least one and at most EVENT_TIMESPAN between them, up to MaxLiveClock
NextLive ==
    \E d \in LiveDeltas, v \in Levels :
        /\ Nat32(Add32(clock, d)) <= MaxLiveClock
        /\ loop(d, HIGH, v)

\* the runtime calls loop() again and again: a poll that can happen does
SpecLive == Init /\ [][NextLive]_vars /\ WF_vars(NextLive)

(* ------------------------- reading the stream -------------------------- *)
\* the digits a heartbeat, a probe's sampled bit and an edge event are printed as
IsHeartbeatDigit(d) == d = MSG_EVENT_HEARTBEAT
IsBitDigit(d) == d \in Levels
IsEdgeDigit(d) == d \in {MSG_MEATBAG_DEACTIVATE, MSG_MEATBAG_ACTIVATE}

\* the scheduler's part and the edge detector's part of a stream
SchedulerPart(s) == SelectSeq(s, LAMBDA d : ~IsEdgeDigit(d))
EdgePart(s) == SelectSeq(s, IsEdgeDigit)

Range(s) == {s[i] : i \in 1..Len(s)}
Count(s, S) == Cardinality({i \in 1..Len(s) : s[i] \in S})

(* ------------------------------- C1 ------------------------------------ *)
\* C1: in the serial stream, leaving the ACTIVATE/DEACTIVATE digits out,
\* heartbeats and probes strictly alternate: no two heartbeats are adjacent
\* and no two probes are adjacent.
C1_SchedulerEventsAlternate ==
    LET s == SchedulerPart(out)
    IN  \A i \in 1..(Len(s) - 1) :
            IsHeartbeatDigit(s[i]) # IsHeartbeatDigit(s[i + 1])

\* heartbeat, probe, heartbeat have been written
C1_Witness ==
    LET s == SchedulerPart(out)
    IN  /\ Len(s) >= 3
        /\ IsHeartbeatDigit(s[1]) /\ IsBitDigit(s[2]) /\ IsHeartbeatDigit(s[3])

(* ------------------------------- C2 ------------------------------------ *)
\* C2: once the flag has become false (DEACTIVATE was written) and while it
\* stays false, heartbeats keep being emitted, one every EVENT_TIMESPAN: a
\* poll that starts and ends with the flag false and computes an elapsed time
\* above EVENT_TIMESPAN emits a heartbeat.
C2_HeartbeatsContinueWhileInactive ==
    [][(/\ MSG_MEATBAG_DEACTIVATE \in Range(out)
        /\ isMeatbagTranscribing = 0
        /\ isMeatbagTranscribing' = 0
        /\ timeElapsed' > EVENT_TIMESPAN)
       => MSG_EVENT_HEARTBEAT \in Range(emitted')]_vars

C4_NoProbeWhileInactive ==
    [][/\ isMeatbagTranscribing = 0 => Count(emitted', Levels) = 0
       /\ \A i \in 1..Len(out') :
              IsBitDigit(out'[i]) =>
                  LET before == EdgePart(SubSeq(out', 1, i - 1))
                  IN  /\ Len(before) >= 1
                      /\ before[Len(before)] = MSG_MEATBAG_ACTIVATE]_vars

\* the flag is false, a heartbeat was the previous event and the elapsed time
\* of the last poll exceeded EVENT_TIMESPAN: the poll wrote nothing
C4_Witness ==
    /\ isMeatbagTranscribing = 0
    /\ activate = LOW
    /\ previousEvent = MSG_EVENT_HEARTBEAT
    /\ timeElapsed > EVENT_TIMESPAN
    /\ emitted = <<>>
    /\ MSG_MEATBAG_DEACTIVATE \in Range(out)

(* ------------------------------- C5 ------------------------------------ *)
\* C5: a poll whose computed elapsed time exceeds EVENT_TIMESPAN, that starts
\* with HEARTBEAT as the previous event and with the flag true, writes exactly
\* one probe, carrying the signal pin's value of that poll (0 or 1), sets the
\* last timestamp to the poll's clock reading and the previous event to
\* PROBE; a poll where one of the three conditions fails writes no probe.
C5_ProbeExactlyWhenEligible ==
    [][IF /\ timeElapsed' > EVENT_TIMESPAN
          /\ previousEvent = MSG_EVENT_HEARTBEAT
          /\ isMeatbagTranscribing = 1
       THEN /\ Count(emitted', Levels) = 1
            /\ emitted'[1] = value'
            /\ IsBitDigit(value')
            /\ previousTimestamp' = clock'
            /\ previousEvent' = MSG_EVENT_PROBE
       ELSE Count(emitted', Levels) = 0]_vars

\* the last poll wrote a probe carrying a 1, and a probe carrying a 0 was
\* written before
C5_Witness ==
    /\ Len(emitted) >= 1
    /\ emitted[1] = HIGH
    /\ previousEvent = MSG_EVENT_PROBE
    /\ previousTimestamp = clock
    /\ LOW \in Range(out)

(* ------------------------------- C6 ------------------------------------ *)
\* C6: the clock readings of any two consecutive heartbeats differ by at
\* least EVENT_TIMESPAN.
C6_HeartbeatsAtLeastTimespanApart ==
    Len(heartbeatAt) = 2 =>
        Geq32(Sub32(heartbeatAt[2], heartbeatAt[1]), EVENT_TIMESPAN)

\* two heartbeats have been emitted, the second in the last poll
C6_Witness ==
    /\ Len(heartbeatAt) = 2
    /\ heartbeatAt[2] = clock
    /\ MSG_EVENT_HEARTBEAT \in Range(emitted)

(* ------------------------------- C7 ------------------------------------ *)
\* C7: a poll writes ACTIVATE exactly when it starts with the flag false and
\* reads the activation pin HIGH, and DEACTIVATE exactly when it starts with
\* the flag true and reads the pin LOW; a level read again writes neither, a
\* level that differs from the one read before writes one of them; in the
\* stream ACTIVATE and DEACTIVATE strictly alternate, starting with ACTIVATE.
C7_EdgeEventsOncePerChange ==
    [][/\ (MSG_MEATBAG_ACTIVATE \in Range(emitted'))
              <=> (isMeatbagTranscribing = 0 /\ activate' = HIGH)
       /\ (MSG_MEATBAG_DEACTIVATE \in Range(emitted'))
              <=> (isMeatbagTranscribing = 1 /\ activate' = LOW)
       /\ Count(emitted', {MSG_MEATBAG_DEACTIVATE, MSG_MEATBAG_ACTIVATE})
              = (IF activate' # activate THEN 1 ELSE 0)
       /\ LET e == EdgePart(out')
          IN  \A i \in 1..Len(e) :
                  e[i] = (IF i % 2 = 1 THEN MSG_MEATBAG_ACTIVATE
                          ELSE MSG_MEATBAG_DEACTIVATE)]_vars

\* ACTIVATE, DEACTIVATE, ACTIVATE have been written, and the last poll read
\* HIGH again and wrote no edge event
C7_Witness ==
    /\ Len(EdgePart(out)) = 3
    /\ activate = HIGH
    /\ Count(emitted, {MSG_MEATBAG_DEACTIVATE, MSG_MEATBAG_ACTIVATE}) = 0
    /\ polls >= 4

(* ------------------------------- C8 ------------------------------------ *)
\* C8: polled at every clock tick from 0 with the activation pin HIGH, the
\* k-th scheduler event is emitted at the first poll whose clock reading
\* exceeds k x EVENT_TIMESPAN: after each poll, k events or more have been
\* written exactly when the clock reading exceeds k x EVENT_TIMESPAN.
C8_NoDrift ==
    polls > 0 =>
        \A k \in 1..(MaxTicks \div EVENT_TIMESPAN) :
            (Len(SchedulerPart(out)) >= k)
                <=> (Nat32(clock) > k * EVENT_TIMESPAN)

(* ------------------------------- C9 ------------------------------------ *)
\* C9: the threshold test of a poll, elapsed > EVENT_TIMESPAN, is true
\* exactly when (current - last) mod 2^32 > EVENT_TIMESPAN.
C9_ThresholdIsUnsignedDifference ==
    [][(timeElapsed' > EVENT_TIMESPAN)
           <=> Gt32(Sub32(clock', previousTimestamp), EVENT_TIMESPAN)]_vars

(* ------------------------------- C10 ----------------------------------- *)
\* C10: a poll writes at most one scheduler event and at most one edge event,
\* and when it writes both the scheduler event comes first.
C10_OneOfEachSchedulerFirst ==
    /\ Count(emitted, {MSG_EVENT_HEARTBEAT, MSG_EVENT_PROBE, LOW, HIGH}) <= 1
    /\ Count(emitted, {MSG_MEATBAG_DEACTIVATE, MSG_MEATBAG_ACTIVATE}) <= 1
    /\ Len(emitted) = 2 => (~IsEdgeDigit(emitted[1]) /\ IsEdgeDigit(emitted[2]))

\* the last poll wrote a probe and then DEACTIVATE
C10_Witness ==
    /\ Len(emitted) = 2
    /\ IsBitDigit(emitted[1])
    /\ emitted[2] = MSG_MEATBAG_DEACTIVATE

(* ------------------------------- C11 ----------------------------------- *)
\* C11 (as claimed): a poll writes at most one event in total, never a
\* scheduler event together with an edge event.
C11_AtMostOneEventPerPoll ==
    Count(emitted, {MSG_EVENT_HEARTBEAT, LOW, HIGH})
        + Count(emitted, {MSG_MEATBAG_DEACTIVATE, MSG_MEATBAG_ACTIVATE}) <= 1

\* C11 (amended): a poll writes at most two events in total, and a poll that
\* writes two writes one scheduler event and one edge event.
C11_AtMostTwoEventsPerPoll ==
    /\ Len(emitted) <= 2
    /\ Len(emitted) = 2 =>
           /\ Count(emitted, {MSG_EVENT_HEARTBEAT, LOW, HIGH}) = 1
           /\ Count(emitted, {MSG_MEATBAG_DEACTIVATE, MSG_MEATBAG_ACTIVATE}) = 1

\* the last poll wrote a heartbeat and ACTIVATE
C11_Witness ==
    /\ MSG_EVENT_HEARTBEAT \in Range(emitted)
    /\ MSG_MEATBAG_ACTIVATE \in Range(emitted)

(* ------------------------------- C12 ----------------------------------- *)
\* C12: from the initial state, polls at clock readings 0, 130, 260, 390 with
\* the activation pin HIGH and the signal pin 1 write ACTIVATE only at the
\* first poll (the flag becomes true), HEARTBEAT only at 130, a probe with
\* value 1 only at 260 and HEARTBEAT only at 390.
C12_ScenarioOutput ==
    /\ polls = 1 => /\ clock = U32(0)
                    /\ emitted = <<MSG_MEATBAG_ACTIVATE>>
                    /\ isMeatbagTranscribing = 1
    /\ polls = 2 => /\ clock = U32(130)
                    /\ emitted = <<MSG_EVENT_HEARTBEAT>>
    /\ polls = 3 => /\ clock = U32(260)
                    /\ emitted = <<HIGH>>
                    /\ value = HIGH
    /\ polls = 4 => /\ clock = U32(390)
                    /\ emitted = <<MSG_EVENT_HEARTBEAT>>
                    /\ out = <<MSG_MEATBAG_ACTIVATE, MSG_EVENT_HEARTBEAT, HIGH,
                               MSG_EVENT_HEARTBEAT>>

\* the fourth poll of the scenario, at 390, has run
C12_Witness ==
    /\ polls = 4
    /\ clock = U32(390)
    /\ previousTimestamp = U32(390)
    /\ activate = HIGH

(* ------------------------------- C13 ----------------------------------- *)
\* the consumer's reading of one digit of the stream
DecodeDigit(d) ==
    CASE d = MSG_MEATBAG_DEACTIVATE -> DeactivateEvent
      [] d = MSG_MEATBAG_ACTIVATE -> ActivateEvent
      [] d = MSG_EVENT_HEARTBEAT -> HeartbeatEvent
      [] d \in Levels -> ProbeEvent(d)
      [] OTHER -> <<"INVALID", d>>

\* the consumer's reading of a stream: digit by digit
Decode(s) == [i \in 1..Len(s) |-> DecodeDigit(s[i])]

\* C13: the stream decodes unambiguously: decoding the stream written so far,
\* digit by digit, returns exactly the sequence of events emitted so far (so
\* no two distinct event sequences are written as the same stream).
C13_StreamDecodesToEvents ==
    Decode(out) = events

\* all four kinds of event have been emitted, a probe of each bit among them
C13_Witness ==
    /\ Len(events) >= 5
    /\ {HeartbeatEvent, ActivateEvent, DeactivateEvent,
        ProbeEvent(LOW), ProbeEvent(HIGH)} \subseteq Range(events)

C15_FirstEventIsHeartbeatAtFirstLatePoll ==
    [][~Gt32(clock, EVENT_TIMESPAN) =>
          /\ SchedulerPart(out) = <<>>
          /\ ~Gt32(clock', EVENT_TIMESPAN) => SchedulerPart(out') = <<>>
          /\ Gt32(clock', EVENT_TIMESPAN) =>
                 /\ Len(emitted') >= 1
                 /\ emitted'[1] = MSG_EVENT_HEARTBEAT
                 /\ SchedulerPart(out') = <<MSG_EVENT_HEARTBEAT>>]_vars

(* ------------------------------- C16 ----------------------------------- *)
\* C16: previousTimestamp changes in a poll exactly when the poll writes a
\* heartbeat or a probe, and then equals the poll's clock reading; so does
\* previousEvent change exactly then; the flag changes in a poll exactly
\* when the poll writes ACTIVATE or DEACTIVATE.
C16_StateChangesOnlyWithItsEvent ==
    [][LET scheduled == Count(emitted', {MSG_EVENT_HEARTBEAT, LOW, HIGH}) > 0
           edged == Count(emitted', {MSG_MEATBAG_DEACTIVATE,
                                     MSG_MEATBAG_ACTIVATE}) > 0
       IN  /\ (previousTimestamp' # previousTimestamp) <=> scheduled
           /\ scheduled => previousTimestamp' = clock'
           /\ (previousEvent' # previousEvent) <=> scheduled
           /\ (isMeatbagTranscribing' # isMeatbagTranscribing) <=> edged]_vars

\* the last poll wrote a probe and no edge event, the flag staying true, and
\* a poll before it wrote DEACTIVATE and ACTIVATE
C16_Witness ==
    /\ Len(emitted) = 1
    /\ IsBitDigit(emitted[1])
    /\ previousTimestamp = clock
    /\ isMeatbagTranscribing = 1
    /\ DeactivateEvent \in Range(events)

(* ------------------------------- C17 ----------------------------------- *)
\* C17: the scheduler decides on the flag as it was before the poll's pin
\* read: a poll that writes ACTIVATE writes no probe, and a poll that starts
\* with the flag true and reads the pin LOW can write a probe, which then
\* stands before the DEACTIVATE of that poll.
C17_SchedulerSeesFlagBeforePinRead ==
    /\ MSG_MEATBAG_ACTIVATE \in Range(emitted) => Count(emitted, Levels) = 0
    /\ (MSG_MEATBAG_DEACTIVATE \in Range(emitted) /\ Count(emitted, Levels) > 0)
           => (/\ Len(emitted) = 2
               /\ IsBitDigit(emitted[1])
               /\ emitted[2] = MSG_MEATBAG_DEACTIVATE)

\* the pin read LOW in a poll that started with the flag true, and the poll
\* wrote a probe and then DEACTIVATE; ACTIVATE was written in a poll before
C17_Witness ==
    /\ activate = LOW
    /\ isMeatbagTranscribing = 0
    /\ Len(events) >= 2
    /\ events[Len(events)] = DeactivateEvent
    /\ events[Len(events) - 1] = ProbeEvent(value)
    /\ emitted = <<value, MSG_MEATBAG_DEACTIVATE>>

(* ------------------------------- C18 ----------------------------------- *)
\* C18: at the end of every poll the flag equals the level of the activation
\* pin read in that poll: it is 1 exactly when the pin read HIGH.
C18_FlagFollowsPin ==
    polls > 0 => ((isMeatbagTranscribing = 1) <=> (activate = HIGH))
                 /\ isMeatbagTranscribing \in {0, 1}

\* the pin has read HIGH, LOW and HIGH again, and the flag is true
C18_Witness ==
    /\ isMeatbagTranscribing = 1
    /\ activate = HIGH
    /\ EdgePart(out) = <<MSG_MEATBAG_ACTIVATE, MSG_MEATBAG_DEACTIVATE,
                         MSG_MEATBAG_ACTIVATE>>

(* ------------------------------- C19 ----------------------------------- *)
\* C19: with the activation pin HIGH at every poll and the clock advancing by
\* at least one and at most EVENT_TIMESPAN between polls, the scheduler starts
\* and never stops: a first heartbeat is written, every heartbeat is followed
\* by a probe and every probe by a heartbeat (for every event written two
\* EVENT_TIMESPANs or more before the clock reading at which the run is cut).
C19_SchedulerKeepsEmitting ==
    /\ (polls = 0) ~> (MSG_EVENT_HEARTBEAT \in Range(emitted))
    /\ (/\ MSG_EVENT_HEARTBEAT \in Range(emitted)
        /\ Nat32(clock) + 2 * EVENT_TIMESPAN <= MaxLiveClock)
           ~> (Count(emitted, Levels) > 0)
    /\ (/\ Count(emitted, Levels) > 0
        /\ Nat32(clock) + 2 * EVENT_TIMESPAN <= MaxLiveClock)
           ~> (MSG_EVENT_HEARTBEAT \in Range(emitted))

\* heartbeat, probe, heartbeat, probe have been written in the steady run
C19_Witness ==
    /\ Len(SchedulerPart(out)) >= 4
    /\ Count(emitted, Levels) > 0
    /\ EdgePart(out) = <<MSG_MEATBAG_ACTIVATE>>

=============================================================================
